---- MODULE Spec2Model ----
(***************************************************************************)
(* Model of the topology-agent orchestration core:                         *)
(*   - the process-wide tool circuit breaker (orchestrator/circuit_breaker)*)
(*   - one request flowing through the LangGraph workflow                  *)
(*     ingress -> planner -> tool_node -> correlate/validate -> response   *)
(***************************************************************************)
EXTENDS Integers, Sequences, FiniteSets, TLC

(***************************************************************************)
(* Program constants                                                       *)
(***************************************************************************)
\* CircuitBreaker.__init__ defaults, used by the process singleton.
failure_threshold == 5
recovery_timeout == 60

(***************************************************************************)
(* Bounds of the model                                                     *)
(***************************************************************************)
\* The wall clock (time.time()) is followed up to MaxTime seconds.
MaxTime == 95
\* Calls of one tool that were admitted by is_open and have not reported yet.
MaxInflight == 2
\* record_failure increments without limit; the model stops counting here.
MaxFailures == 7

\* Tool names the breaker's callers use in the model.
CallerTools == {"outage_tool", "inventory_tool"}

\* The clock advances between two calls by one of these amounts: less than,
\* and a little more than, half of the recovery timeout, so that elapsed
\* times below, equal to and above recovery_timeout all occur.
ClockSteps == {recovery_timeout \div 2, (recovery_timeout \div 2) + 1}

VARIABLES
    \* ---- CircuitBreaker (process-wide singleton tool_circuit_breaker) ----
    _failures,      \* dict tool_name -> consecutive-failure count
    _tripped_at,    \* dict tool_name -> time the breaker tripped
    now,            \* time.time()
    \* ---- callers of the breaker ----
    inflight,       \* tool -> number of admitted calls still running
    trials,         \* tool -> number of admitted half-open trial calls still running
    last,           \* the last breaker call and what it returned
    streak,         \* tool -> record_failure calls since the last record_success
    lastFailAt,     \* tool -> time of the last record_failure
    \* ---- one request: the TopologyState dict and where the workflow is ----
    pc,             \* node of the workflow the request is at
    user_input,
    ui_sites,       \* ui_context["selected_sites"]
    retry_count,
    max_retries,
    plan,
    plan_raw,
    planning_error, \* "absent" when the key is not in the state dict
    topology_data,
    inventory_data,
    comment_data,
    outage_data,
    memory_data,
    hierarchy_data,
    validation,
    ui_response,
    partial,
    \* ---- tool_node's loop and what it did ----
    stepIdx,        \* index of the next step of plan["steps"] (0: loop not entered)
    steplog,        \* one record per step the loop has processed
    ref_uses,       \* the $ref params the adapters met and what they used instead
    \* ---- process-wide metric ----
    fallback_used,  \* PLANNER_FALLBACK_USED
    \* ---- bookkeeping across the requests of the process ----
    served,         \* number of requests the process has finished
    prev_fallback,  \* inputs and plan of the last finished request that stored a fallback plan
    planner_runs,   \* times planner_node has run for the current request
    \* ---- model calls and the LLM gateway (src/llm/gateway) ----
    llm_calls,      \* the model invocations made so far: who made them, through which stages
    settings,       \* the Settings fields the gateway reads
    importable,     \* the chat-model libraries whose import succeeded (models.py 12-37)
    usage_file,     \* .llm_usage.json: its content, or a file opened for writing and still empty
    cb,             \* per running usage callback: its position inside add_cost and its local data
    gm,             \* the get_model call in progress, or the result of the last one
    charged,        \* per total, the sum of the costs of the add_cost calls that have returned
    last_global,    \* get_global_cost() when the latest add_cost call returned
    calls_started,  \* number of model calls made through a gateway handle
    gr              \* one call through the gateway pipeline: messages, prompt, reply, result

breakerVars == <<_failures, _tripped_at, now, inflight, trials, last, streak, lastFailAt>>

slotVars == <<topology_data, inventory_data, comment_data, outage_data, memory_data,
              hierarchy_data>>

requestVars == <<pc, user_input, ui_sites, retry_count, max_retries, plan, plan_raw,
                 planning_error, slotVars, validation, ui_response, partial, stepIdx,
                 steplog, ref_uses, fallback_used, served, prev_fallback, planner_runs>>

storeVars == <<settings, importable, usage_file, cb, gm, charged, last_global, calls_started,
               gr>>

gatewayVars == <<llm_calls, storeVars>>

vars == <<breakerVars, requestVars, gatewayVars>>

(***************************************************************************)
(* Python dict helpers                                                     *)
(***************************************************************************)
DictSet(d, k, v) == [x \in (DOMAIN d) \cup {k} |-> IF x = k THEN v ELSE d[x]]
DictDel(d, k) == [x \in (DOMAIN d) \ {k} |-> d[x]]
DictGet(d, k, default) == IF k \in DOMAIN d THEN d[k] ELSE default
EmptyDict == [x \in {} |-> 0]

Min(a, b) == IF a < b THEN a ELSE b

(***************************************************************************)
(* CircuitBreaker                                                          *)
(***************************************************************************)
\* is_open, line 40: (time.time() - tripped_time) > self.recovery_timeout
RecoveryElapsedLax(tripped_time, time) == (time - tripped_time) >= recovery_timeout
RecoveryElapsed(tripped_time, time) == (time - tripped_time) > recovery_timeout

\* is_open takes the half-open branch (lines 40-46)
HalfOpenBranch(tripped, t, time) ==
    t \in DOMAIN tripped /\ RecoveryElapsed(tripped[t], time)

\* The value is_open returns (lines 36-48)
IsOpenReturns(tripped, t, time) ==
    IF t \notin DOMAIN tripped THEN FALSE
    ELSE IF RecoveryElapsed(tripped[t], time) THEN FALSE
    ELSE TRUE

\* record_failure, line 56: self._failures[tool_name] >= self.failure_threshold
ThresholdReached(count) == count >= failure_threshold

\* is_open without the reset of line 45 (not the program)
FailuresKeptByIsOpen(failures, tripped, t, time) == failures

\* _failures after is_open (line 45)
FailuresAfterIsOpen(failures, tripped, t, time) ==
    IF HalfOpenBranch(tripped, t, time)
    THEN DictSet(failures, t, failure_threshold - 1)
    ELSE failures

\* _tripped_at after is_open (line 43)
TrippedAfterIsOpen(tripped, t, time) ==
    IF HalfOpenBranch(tripped, t, time) THEN DictDel(tripped, t) ELSE tripped

\* record_failure (lines 54-59)
FailuresAfterFailure(failures, t) == DictSet(failures, t, DictGet(failures, t, 0) + 1)
TrippedAfterFailure(failures, tripped, t, time) ==
    IF ThresholdReached(FailuresAfterFailure(failures, t)[t])
    THEN DictSet(tripped, t, time)
    ELSE tripped

\* record_success (lines 65-70)
FailuresAfterSuccess(failures, t) ==
    IF t \in DOMAIN failures THEN DictSet(failures, t, 0) ELSE failures
TrippedAfterSuccess(tripped, t) ==
    IF t \in DOMAIN tripped THEN DictDel(tripped, t) ELSE tripped

NoCall == [op |-> "none", tool |-> "none", ret |-> FALSE, trial |-> FALSE]

(***************************************************************************)
(* Callers of the breaker: a call asks is_open; when it is admitted it runs *)
(* the tool and later reports record_success or record_failure.            *)
(***************************************************************************)
\* A caller checks is_open(t). Admitted (False): the call is in flight, as the
\* half-open trial when is_open took the half-open branch.
Call(t) ==
    /\ inflight[t] + trials[t] < MaxInflight
    /\ _failures' = FailuresAfterIsOpen(_failures, _tripped_at, t, now)
    /\ _tripped_at' = TrippedAfterIsOpen(_tripped_at, t, now)
    /\ last' = [op |-> "is_open", tool |-> t,
                ret |-> IsOpenReturns(_tripped_at, t, now),
                trial |-> HalfOpenBranch(_tripped_at, t, now)]
    /\ IF IsOpenReturns(_tripped_at, t, now)
       THEN UNCHANGED <<inflight, trials>>
       ELSE IF HalfOpenBranch(_tripped_at, t, now)
            THEN /\ trials' = [trials EXCEPT ![t] = @ + 1]
                 /\ UNCHANGED inflight
            ELSE /\ inflight' = [inflight EXCEPT ![t] = @ + 1]
                 /\ UNCHANGED trials
    /\ UNCHANGED <<now, streak, lastFailAt, requestVars, gatewayVars>>

\* An admitted call of t fails and reports record_failure(t).
ReportFailure(t, isTrial) ==
    /\ IF isTrial THEN trials[t] > 0 ELSE inflight[t] > 0
    /\ DictGet(_failures, t, 0) < MaxFailures
    /\ _failures' = FailuresAfterFailure(_failures, t)
    /\ _tripped_at' = TrippedAfterFailure(_failures, _tripped_at, t, now)
    /\ IF isTrial
       THEN trials' = [trials EXCEPT ![t] = @ - 1] /\ UNCHANGED inflight
       ELSE inflight' = [inflight EXCEPT ![t] = @ - 1] /\ UNCHANGED trials
    /\ last' = [op |-> "record_failure", tool |-> t, ret |-> FALSE, trial |-> isTrial]
    /\ streak' = [streak EXCEPT ![t] = Min(@ + 1, failure_threshold)]
    /\ lastFailAt' = [lastFailAt EXCEPT ![t] = now]
    /\ UNCHANGED <<now, requestVars, gatewayVars>>

\* An admitted call of t succeeds and reports record_success(t).
ReportSuccess(t, isTrial) ==
    /\ IF isTrial THEN trials[t] > 0 ELSE inflight[t] > 0
    /\ _failures' = FailuresAfterSuccess(_failures, t)
    /\ _tripped_at' = TrippedAfterSuccess(_tripped_at, t)
    /\ IF isTrial
       THEN trials' = [trials EXCEPT ![t] = @ - 1] /\ UNCHANGED inflight
       ELSE inflight' = [inflight EXCEPT ![t] = @ - 1] /\ UNCHANGED trials
    /\ last' = [op |-> "record_success", tool |-> t, ret |-> FALSE, trial |-> isTrial]
    /\ streak' = [streak EXCEPT ![t] = 0]
    /\ UNCHANGED <<now, lastFailAt, requestVars, gatewayVars>>

\* Time passes.
Tick(d) ==
    /\ now + d <= MaxTime
    /\ now' = now + d
    /\ UNCHANGED <<_failures, _tripped_at, inflight, trials, last, streak, lastFailAt, requestVars, gatewayVars>>

(***************************************************************************)
(* Request data                                                            *)
(***************************************************************************)
\* Longest plan["steps"] list the planner model returns in the model.
MaxSteps == 2

NoId == "<none>"

\* A step param value: a missing key (params.get default []), a literal list,
\* or the reference token "$ref:<ref>.output.<field>".
Absent == [kind |-> "absent", items |-> <<>>, ref |-> "", field |-> ""]
Lit(s) == [kind |-> "lit", items |-> s, ref |-> "", field |-> ""]
Ref(id, f) == [kind |-> "ref", items |-> <<>>, ref |-> id, field |-> f]

\* isinstance(v, str) and v.startswith("$ref")
IsRef(v) == v.kind = "ref"
\* The leading characters of the token string "$ref:...": what Python yields
\* when the string is indexed or iterated as if it were a list.
RawToken == <<"$", "r">>
\* The value as a Python sequence: a str is the sequence of its characters.
AsSeq(v) == IF IsRef(v) THEN RawToken ELSE v.items
\* Python truthiness of the value (a token string is a non-empty str).
Truthy(v) == IsRef(v) \/ Len(v.items) > 0

NoParams == [site_names |-> Absent, device_ids |-> Absent, circuit_ids |-> Absent]
RefIdParams == [site_names |-> Absent,
                device_ids |-> Ref("step_1", "device_ids"),
                circuit_ids |-> Ref("step_1", "circuit_ids")]
RefSiteParams == [site_names |-> Ref("step_1", "site_names"),
                  device_ids |-> Absent, circuit_ids |-> Absent]

\* The tools the planner prompt offers to the model (planner_prompt.py).
ToolSet == {"topology_tool", "inventory_tool", "outage_tool", "comments_search_tool",
            "hierarchy_tool", "memory_search_tool"}

\* tool_node's tool_dispatch table (tool_node.py lines 75-83): tool -> state key
ToolDispatch == [topology_tool |-> "topology_data",
                 inventory_tool |-> "inventory_data",
                 comment_tool |-> "comment_data",
                 comments_search_tool |-> "comment_data",
                 outage_tool |-> "outage_data",
                 memory_tool |-> "memory_data",
                 hierarchy_tool |-> "hierarchy_data"]

\* ---- what the planner model may return ----
\* (tool, params) and (id, depends_on) of a step the model writes
ToolParamPairs == {<<"topology_tool", NoParams>>,
                   <<"inventory_tool", RefIdParams>>,
                   <<"inventory_tool", RefSiteParams>>,
                   <<"outage_tool", RefIdParams>>,
                   <<"outage_tool", NoParams>>,
                   <<"reboot_tool", NoParams>>}
IdDepPairs == {<<NoId, {}>>, <<NoId, {"step_0"}>>, <<NoId, {"step_1"}>>,
               <<"step_1", {}>>, <<"step_1", {"step_1"}>>}

\* A list element that is not a dict or has no "tool" key
BadStep == [bad |-> TRUE, id |-> NoId, tool |-> "", params |-> NoParams, depends_on |-> {}]
StepChoices ==
    {[bad |-> FALSE, id |-> idp[1], tool |-> tp[1], params |-> tp[2], depends_on |-> idp[2]] :
        tp \in ToolParamPairs, idp \in IdDepPairs} \cup {BadStep}

StepLists == UNION {[1..n -> StepChoices] : n \in 1..MaxSteps}

\* The planner chain's outcome: the handle cannot be built, ainvoke raises, or
\* text comes back, which json.loads turns into one of these values.
PlannerOutcomes ==
    {[kind |-> k, steps |-> <<>>] :
        k \in {"handle_error", "invoke_error", "unparseable", "not_object", "no_steps",
               "steps_not_list", "steps_empty"}}
    \cup {[kind |-> "steps", steps |-> s] : s \in StepLists}

NoPlan == [strategy |-> "none", steps |-> <<>>, fallback_reason |-> "",
           from_user_input |-> ""]

\* ---- tool envelopes ----
NoneData == [present |-> FALSE, error |-> "none", paths |-> <<>>, circuits |-> <<>>,
             active_alarms |-> <<>>, comments |-> <<>>, source |-> "none",
             meta_error |-> FALSE]
Envelope(source) == [NoneData EXCEPT !.present = TRUE, !.source = source]
\* An adapter raised instead of returning
Raised == [NoneData EXCEPT !.source = "raised"]

\* A path of the graph store between the two selected sites
PathOf(sites) == [src_site |-> sites[1], dst_site |-> sites[2],
                  hops |-> <<sites[1], "d1", sites[2]>>,
                  alarms |-> <<>>, is_impacted |-> FALSE]
\* A row of inventory_circuits between two sites (columns id, src_site, dst_site;
\* there is no circuit_id column: "" stands for the missing key)
RowOf(src, dst) == [id |-> "c1", circuit_id |-> "", src_site |-> src, dst_site |-> dst,
                    alarms |-> <<>>, is_impacted |-> FALSE]
Alarm(eid, etype) == [element_id |-> eid, element_type |-> etype]

Sites == {"A", "B"}

RECURSIVE SubSeqs(_)
\* All subsequences of s (each element kept or dropped, order kept)
SubSeqs(s) ==
    IF s = <<>> THEN {<<>>}
    ELSE LET rest == SubSeqs(Tail(s))
         IN rest \cup {<<Head(s)>> \o r : r \in rest}

RECURSIVE CatHops(_)
CatHops(paths) == IF paths = <<>> THEN <<>> ELSE Head(paths).hops \o CatHops(Tail(paths))

RECURSIVE CircuitIdsOf(_)
\* [c.get("circuit_id") for c in circuits if c.get("circuit_id")]
CircuitIdsOf(circuits) ==
    IF circuits = <<>> THEN <<>>
    ELSE (IF Head(circuits).circuit_id # "" THEN <<Head(circuits).circuit_id>> ELSE <<>>)
         \o CircuitIdsOf(Tail(circuits))

\* params of the first step of the plan whose tool is in `names` (the adapters'
\* "for step in steps: if step.get('tool') == ...: params = ...; break")
FirstParams(steps, names) ==
    LET idx == {i \in 1..Len(steps) : steps[i].tool \in names}
    IN IF idx = {} THEN NoParams
       ELSE steps[CHOOSE i \in idx : \A j \in idx : i <= j].params

(***************************************************************************)
(* Tool adapters: the set of envelopes a run may return (Raised: it raises) *)
(***************************************************************************)
\* run_topology_tool: reads ui_context only; stub without a graph client or
\* with fewer than two selected sites; a driver error gives empty paths.
TopologyResults(sites) ==
    IF Len(sites) < 2 THEN {Envelope("topology_tool_stub")}
    ELSE {Envelope("topology_tool_stub"),
          [Envelope("topology_tool_graph_error") EXCEPT !.meta_error = TRUE],
          Envelope("topology_graph_db"),
          [Envelope("topology_graph_db") EXCEPT !.paths = <<PathOf(sites)>>]}

\* run_inventory_tool, lines 43-56: what the params become
InvDeviceIds(p, topo) ==
    IF IsRef(p.device_ids) THEN CatHops(topo.paths) ELSE p.device_ids.items
InvCircuitIds(p) == IF IsRef(p.circuit_ids) THEN <<>> ELSE p.circuit_ids.items
InvSiteNames(p, sites) == IF Truthy(p.site_names) THEN AsSeq(p.site_names) ELSE sites

\* inventory_client.get_circuits_by_sites for the sites the adapter asks for
DbCircuits(names) ==
    IF Len(names) >= 2 /\ {names[1], names[2]} \subseteq Sites
    THEN {<<>>, <<RowOf(names[1], names[2])>>}
    ELSE {<<>>}

InventoryResults(p, sites, topo) ==
    IF /\ Len(InvSiteNames(p, sites)) < 2
       /\ InvDeviceIds(p, topo) = <<>>
       /\ InvCircuitIds(p) = <<>>
    THEN {Envelope("inventory_tool")}
    ELSE {Raised} \cup
         {[Envelope("inventory_db") EXCEPT !.circuits = c] :
             c \in DbCircuits(InvSiteNames(p, sites))}

\* run_outage_tool, lines 31-50: what the params become
OutCircuitIds(p, inv) ==
    IF IsRef(p.circuit_ids) THEN CircuitIdsOf(inv.circuits) ELSE p.circuit_ids.items
OutDeviceIds(p) == IF IsRef(p.device_ids) THEN <<>> ELSE p.device_ids.items
OutSiteNames(p, sites, inv) ==
    IF ~Truthy(p.site_names) /\ OutDeviceIds(p) = <<>> /\ OutCircuitIds(p, inv) = <<>>
    THEN sites
    ELSE AsSeq(p.site_names)

AlarmsFor(ids, etype) == [i \in 1..Len(ids) |-> Alarm(ids[i], etype)]

\* lines 52-137: the alarms are drawn at random for the requested elements, and
\* one site alarm is added when none was drawn
OutageResults(p, sites, inv) ==
    LET circ == OutCircuitIds(p, inv)
        dev == OutDeviceIds(p)
        names == OutSiteNames(p, sites, inv)
        cands == AlarmsFor(circ, "circuit") \o AlarmsFor(dev, "device")
                   \o AlarmsFor(names, "site")
    IN IF names = <<>> /\ dev = <<>> /\ circ = <<>>
       THEN {[Envelope("outage_tool") EXCEPT !.meta_error = TRUE]}
       ELSE {[Envelope("outage_tool_stub") EXCEPT !.active_alarms =
                  IF a = <<>> /\ names # <<>> THEN <<Alarm(names[1], "site")>> ELSE a] :
                a \in SubSeqs(cands)}

\* run_comment_tool: empty search text returns at once; the embedding model and
\* the vector store are reached outside any try
CommentResults(question) ==
    IF question = "" THEN {Envelope("comment_tool")}
    ELSE {Raised,
          Envelope("comment_rag_pgvector"),
          [Envelope("comment_rag_pgvector_reranked") EXCEPT !.comments = <<"cm1">>]}

\* What an adapter run may return in the current state
AdapterResults(tool) ==
    CASE tool = "topology_tool" -> TopologyResults(ui_sites)
      [] tool = "inventory_tool" ->
            InventoryResults(FirstParams(plan.steps, {"inventory_tool"}), ui_sites,
                             topology_data)
      [] tool = "outage_tool" ->
            OutageResults(FirstParams(plan.steps, {"outage_tool"}), ui_sites,
                          inventory_data)
      [] tool \in {"comment_tool", "comments_search_tool"} -> CommentResults(user_input)
      [] tool = "memory_tool" -> {Envelope("memory_tool_stub")}
      [] tool = "hierarchy_tool" -> {Envelope("hierarchy_tool_stub")}

\* The reference tokens the adapter meets in its params, with the value it goes
\* on to work with and whether that value is the token string itself.
RefUse(idx, tool, param, v, value, raw) ==
    IF IsRef(v)
    THEN <<[step |-> idx, tool |-> tool, param |-> param, ref |-> v.ref,
            field |-> v.field, value |-> value, raw |-> raw]>>
    ELSE <<>>

AdapterRefUses(idx, tool) ==
    CASE tool = "inventory_tool" ->
            LET p == FirstParams(plan.steps, {"inventory_tool"})
            IN RefUse(idx, tool, "device_ids", p.device_ids,
                      InvDeviceIds(p, topology_data), FALSE)
               \o RefUse(idx, tool, "circuit_ids", p.circuit_ids, InvCircuitIds(p), FALSE)
               \o RefUse(idx, tool, "site_names", p.site_names,
                         InvSiteNames(p, ui_sites), TRUE)
      [] tool = "outage_tool" ->
            LET p == FirstParams(plan.steps, {"outage_tool"})
            IN RefUse(idx, tool, "circuit_ids", p.circuit_ids,
                      OutCircuitIds(p, inventory_data), FALSE)
               \o RefUse(idx, tool, "device_ids", p.device_ids, OutDeviceIds(p), FALSE)
               \o RefUse(idx, tool, "site_names", p.site_names,
                         OutSiteNames(p, ui_sites, inventory_data), TRUE)
      [] OTHER -> <<>>

(***************************************************************************)
(* planner_node                                                            *)
(***************************************************************************)
\* f"step_{idx}"
StepId(idx) ==
    CASE idx = 0 -> "step_0" [] idx = 1 -> "step_1" [] idx = 2 -> "step_2"
      [] idx = 3 -> "step_3" [] OTHER -> "step_n"

FallbackStep(id, tool) == [id |-> id, tool |-> tool, params |-> NoParams, depends_on |-> {}]

\* A fallback plan that tells the first use of the process from the later ones
FallbackPlanCounted(question) ==
    [strategy |-> "fallback_simple",
     steps |-> <<FallbackStep("step_topology", "topology_tool")>>,
     fallback_reason |-> IF fallback_used = 0 THEN "first" ELSE "again",
     from_user_input |-> question]

\* _fallback_plan (lines 28-42)
FallbackPlan(question) ==
    [strategy |-> "fallback_simple",
     steps |-> <<FallbackStep("step_topology", "topology_tool"),
                 FallbackStep("step_inventory", "inventory_tool"),
                 FallbackStep("step_comments", "comment_tool"),
                 FallbackStep("step_memory", "memory_tool"),
                 FallbackStep("step_hierarchy", "hierarchy_tool")>>,
     fallback_reason |-> "llm_planner_failed_or_invalid_json",
     from_user_input |-> question]

\* _parse_plan_from_llm_output, lines 89-97: the only check made on a step
StepNeverRejected(s) == FALSE
StepRejected(s) == s.bad

\* _parse_plan_from_llm_output accepts the parsed value (lines 59-97)
ParseAccepts(out) ==
    /\ out.kind = "steps"
    /\ \A i \in 1..Len(out.steps) : ~StepRejected(out.steps[i])

\* raw_text (line 176), kept as the kind of text the model returned: one of the
\* malformed kinds, a steps list holding an element that is no step object, or
\* a list of step objects
RawText(out) ==
    IF out.kind # "steps" THEN out.kind
    ELSE IF \E i \in 1..Len(out.steps) : out.steps[i].bad THEN "steps_with_non_step"
    ELSE "steps_of_objects"

\* the message stored in state["planning_error"] when it does not
ParseError(out) ==
    CASE out.kind = "unparseable" -> "json_parse_error"
      [] out.kind \in {"not_object", "no_steps"} -> "missing_steps"
      [] out.kind \in {"steps_not_list", "steps_empty"} -> "steps_not_nonempty_list"
      [] OTHER -> "invalid_step"

\* lines 98-102: the accepted plan, ids and params defaulted
ParsedPlan(out) ==
    [strategy |-> "model",
     steps |-> [i \in 1..Len(out.steps) |->
                  [id |-> IF out.steps[i].id = NoId THEN StepId(i - 1) ELSE out.steps[i].id,
                   tool |-> out.steps[i].tool,
                   params |-> out.steps[i].params,
                   depends_on |-> out.steps[i].depends_on]],
     fallback_reason |-> "",
     from_user_input |-> ""]

\* The chain get_planner_chain and get_response_chain build: the prompt piped
\* into the model that get_planner_model / get_response_model created
PromptModelChain == <<"prompt", "model">>

\* The pipeline GatewayClient.get_model returns: the input interceptor, the
\* model bound to the usage callback, the output interceptor
GatewayPipeline == <<"interceptor_in", "model", "on_llm_end", "interceptor_out">>

\* One model invocation: the node that made it and the stages it ran through
ModelCall(node, stages) == [node |-> node, stages |-> stages]

\* planner_node with an empty question (lines 139-145): fallback, no model call
PlannerEmptyQuestion ==
    /\ pc = "planner"
    /\ user_input = ""
    /\ plan' = FallbackPlan(user_input)
    /\ plan_raw' = ""
    /\ fallback_used' = fallback_used + 1
    /\ pc' = "tool_node"
    /\ planner_runs' = planner_runs + 1
    /\ UNCHANGED <<gatewayVars, breakerVars, user_input, ui_sites, retry_count, max_retries,
                   planning_error, slotVars, validation, ui_response, partial, stepIdx,
                   steplog, ref_uses, served, prev_fallback>>

\* planner_node with a question (lines 147-195). After a model reply the plan is
\* stored and then state["planning_error"] is read by subscript (line 184): a
\* state without that key makes the node raise.
PlannerNode(out) ==
    /\ pc = "planner"
    /\ user_input # ""
    /\ IF out.kind = "handle_error"
       THEN /\ pc' = "failed"
            /\ UNCHANGED <<plan, plan_raw, planning_error, fallback_used>>
       ELSE IF out.kind = "invoke_error"
       THEN /\ plan' = FallbackPlan(user_input)
            /\ plan_raw' = ""
            /\ planning_error' = "llm_invoke_error"
            /\ fallback_used' = fallback_used + 1
            /\ pc' = "tool_node"
       ELSE /\ plan_raw' = RawText(out)
            /\ IF ParseAccepts(out)
               THEN /\ plan' = ParsedPlan(out)
                    /\ UNCHANGED <<planning_error, fallback_used>>
               ELSE /\ plan' = FallbackPlan(user_input)
                    /\ planning_error' = ParseError(out)
                    /\ fallback_used' = fallback_used + 1
            /\ pc' = IF planning_error' = "absent" THEN "failed" ELSE "tool_node"
    /\ planner_runs' = planner_runs + 1
    /\ llm_calls' = IF out.kind = "handle_error"
                    THEN llm_calls
                    ELSE llm_calls \cup {ModelCall("planner", PromptModelChain)}
    /\ UNCHANGED <<storeVars, breakerVars, user_input, ui_sites, retry_count, max_retries,
                   slotVars, validation, ui_response, partial, stepIdx, steplog, ref_uses,
                   served, prev_fallback>>

(***************************************************************************)
(* tool_node                                                               *)
(***************************************************************************)
SetSlot(key, v) ==
    /\ topology_data' = IF key = "topology_data" THEN v ELSE topology_data
    /\ inventory_data' = IF key = "inventory_data" THEN v ELSE inventory_data
    /\ comment_data' = IF key = "comment_data" THEN v ELSE comment_data
    /\ outage_data' = IF key = "outage_data" THEN v ELSE outage_data
    /\ memory_data' = IF key = "memory_data" THEN v ELSE memory_data
    /\ hierarchy_data' = IF key = "hierarchy_data" THEN v ELSE hierarchy_data

\* lines 70-90: read the plan, set every data key to None
ToolNodeEnter ==
    /\ pc = "tool_node"
    /\ stepIdx = 0
    /\ topology_data' = NoneData
    /\ inventory_data' = NoneData
    /\ comment_data' = NoneData
    /\ outage_data' = NoneData
    /\ memory_data' = NoneData
    /\ hierarchy_data' = NoneData
    /\ steplog' = <<>>
    /\ ref_uses' = <<>>
    /\ IF plan.steps = <<>>
       THEN pc' = "correlate" /\ UNCHANGED stepIdx
       ELSE stepIdx' = 1 /\ UNCHANGED pc
    /\ UNCHANGED <<gatewayVars, breakerVars, user_input, ui_sites, retry_count, max_retries, plan,
                   plan_raw, planning_error, validation, ui_response, partial,
                   fallback_used,
                   served, prev_fallback, planner_runs>>

\* The loop is left after the last step (lines 93-106)
AfterStep(idx) ==
    IF idx = Len(plan.steps)
    THEN pc' = "correlate" /\ stepIdx' = 0
    ELSE stepIdx' = idx + 1 /\ UNCHANGED pc

\* lines 93-103, one pass of "for step in steps": the steps are taken in list
\* order; a tool of the dispatch table is awaited and its result stored, an
\* exception of the adapter leaves the node (lines 108-111); any other tool
\* name is logged and skipped.
ToolStep ==
    /\ pc = "tool_node"
    /\ stepIdx >= 1
    /\ \E r \in (IF plan.steps[stepIdx].tool \in DOMAIN ToolDispatch
                THEN AdapterResults(plan.steps[stepIdx].tool) ELSE {NoneData}) :
       LET step == plan.steps[stepIdx]
           known == step.tool \in DOMAIN ToolDispatch
           entry == [idx |-> stepIdx, tool |-> step.tool, invoked |-> known,
                     raised |-> known /\ r = Raised,
                     breaker_open |-> IsOpenReturns(_tripped_at, step.tool, now),
                     envelope_error |-> r.error]
       IN /\ steplog' = Append(steplog, entry)
          /\ ref_uses' = ref_uses \o AdapterRefUses(stepIdx, step.tool)
          /\ IF known /\ r = Raised
             THEN pc' = "failed" /\ UNCHANGED <<stepIdx, slotVars>>
             ELSE /\ IF known THEN SetSlot(ToolDispatch[step.tool], r)
                              ELSE UNCHANGED slotVars
                  /\ AfterStep(stepIdx)
    /\ UNCHANGED <<gatewayVars, breakerVars, user_input, ui_sites, retry_count, max_retries, plan,
                   plan_raw, planning_error, validation, ui_response, partial,
                   fallback_used,
                   served, prev_fallback, planner_runs>>

\* Settings.tool_retry_max_attempts (config.py line 179); no code reads it
tool_retry_max_attempts == 3

\* The value stored under a state key
SlotValue(key) ==
    CASE key = "topology_data"  -> topology_data
      [] key = "inventory_data" -> inventory_data
      [] key = "comment_data"   -> comment_data
      [] key = "outage_data"    -> outage_data
      [] key = "memory_data"    -> memory_data
      [] key = "hierarchy_data" -> hierarchy_data

\* The request's task is cancelled while tool_node awaits an adapter (line 97
\* and line 36): CancelledError is not an Exception, so neither handler
\* (lines 39-42, 108-111) catches it and it leaves tool_node and the workflow;
\* nothing is stored for the step.
CancelInFlight ==
    /\ pc = "tool_node"
    /\ stepIdx >= 1
    /\ plan.steps[stepIdx].tool \in DOMAIN ToolDispatch
    /\ pc' = "cancelled"
    /\ UNCHANGED <<gatewayVars, breakerVars, user_input, ui_sites, retry_count, max_retries, plan,
                   plan_raw, planning_error, slotVars, validation, ui_response, partial,
                   stepIdx, steplog, ref_uses, fallback_used,
                   served, prev_fallback, planner_runs>>

(***************************************************************************)
(* correlate_and_validate_node                                             *)
(***************************************************************************)
RECURSIVE IndexLatestAlarm(_, _)
\* An index that keeps one alarm per element, the latest
IndexLatestAlarm(alarms, by) ==
    IF alarms = <<>> THEN by
    ELSE LET a == Head(alarms)
         IN IndexLatestAlarm(Tail(alarms),
                             IF a.element_id # "" THEN DictSet(by, a.element_id, <<a>>)
                             ELSE by)

RECURSIVE IndexAlarms(_, _)
\* lines 55-58: alarms_by_eid.setdefault(eid, []).append(alarm)
IndexAlarms(alarms, by) ==
    IF alarms = <<>> THEN by
    ELSE LET a == Head(alarms)
         IN IndexAlarms(Tail(alarms),
                        IF a.element_id # ""
                        THEN DictSet(by, a.element_id,
                                     DictGet(by, a.element_id, <<>>) \o <<a>>)
                        ELSE by)

\* lines 64-81 for one circuit. circuit_alarms is the list stored in
\* alarms_by_eid when the circuit id has alarms, so extending it extends the
\* index entry too.
EnrichCircuit(c, by) ==
    LET cid == c.circuit_id
        shared == cid # "" /\ cid \in DOMAIN by
        a0 == IF shared THEN by[cid] ELSE <<>>
        a1 == IF c.src_site \in DOMAIN by THEN a0 \o by[c.src_site] ELSE a0
        by1 == IF shared THEN DictSet(by, cid, a1) ELSE by
        a2 == IF c.dst_site \in DOMAIN by1 THEN a1 \o by1[c.dst_site] ELSE a1
        by2 == IF shared THEN DictSet(by1, cid, a2) ELSE by1
    IN [circuit |-> [c EXCEPT !.alarms = a2, !.is_impacted = Len(a2) > 0], by |-> by2]

\* A counter that counts every circuit
CountEvery(c) == 1

\* lines 80-81: what one circuit adds to impacted_circuits_count
ImpactedIncrement(c) == IF c.is_impacted THEN 1 ELSE 0

RECURSIVE EnrichCircuits(_, _)
\* lines 62-81: the loop over the circuits, with its counter
EnrichCircuits(circs, by) ==
    IF circs = <<>> THEN [circuits |-> <<>>, by |-> by, count |-> 0]
    ELSE LET e == EnrichCircuit(Head(circs), by)
             rest == EnrichCircuits(Tail(circs), e.by)
         IN [circuits |-> <<e.circuit>> \o rest.circuits, by |-> rest.by,
             count |-> ImpactedIncrement(e.circuit) + rest.count]

RECURSIVE HopAlarms(_, _)
\* lines 86-90
HopAlarms(hops, by) ==
    IF hops = <<>> THEN <<>>
    ELSE (IF Head(hops) \in DOMAIN by THEN by[Head(hops)] ELSE <<>>)
         \o HopAlarms(Tail(hops), by)

EnrichPaths(paths, by) ==
    [i \in 1..Len(paths) |->
        [paths[i] EXCEPT !.alarms = HopAlarms(paths[i].hops, by),
                         !.is_impacted = Len(HopAlarms(paths[i].hops, by)) > 0]]

\* line 115: the only envelope error the correlator looks for
IsSkipped(e) == e.data.error = "circuit_breaker_open"

\* lines 108-117: one warning per skipped tool among these four
BreakerWarnings(topo, inv, out, com) ==
    LET results == <<[tool |-> "topology", data |-> topo],
                     [tool |-> "inventory", data |-> inv],
                     [tool |-> "outage", data |-> out],
                     [tool |-> "comments", data |-> com]>>
        skipped == SelectSeq(results, IsSkipped)
    IN [i \in 1..Len(skipped) |->
          [kind |-> "circuit_breaker_open", tool |-> skipped[i].tool]]

\* The circuits of a list that are marked impacted
CountImpacted(circuits) == Cardinality({i \in 1..Len(circuits) : circuits[i].is_impacted})

NoValidation == [status |-> "none", needs_refinement |-> FALSE, warnings |-> <<>>]
NoResponse == [view_type |-> "none", total_circuits |-> 0, impacted_circuits |-> 0,
               paths |-> <<>>, circuits |-> <<>>, comments |-> <<>>, warnings |-> <<>>,
               partial |-> FALSE, natural_language_summary |-> "none"]

CorrelateAndValidate ==
    /\ pc = "correlate"
    /\ LET by0 == IndexAlarms(outage_data.active_alarms, EmptyDict)
           enriched == EnrichCircuits(inventory_data.circuits, by0)
           circuits == enriched.circuits
           paths == EnrichPaths(topology_data.paths, enriched.by)
           warnings == BreakerWarnings(topology_data, inventory_data, outage_data,
                                       comment_data)
           is_partial == Len(warnings) > 0
       IN /\ inventory_data' = [inventory_data EXCEPT !.circuits = circuits]
          /\ topology_data' = [topology_data EXCEPT !.paths = paths]
          /\ validation' = [status |-> IF is_partial THEN "partial" ELSE "ok",
                            needs_refinement |-> FALSE,
                            warnings |-> warnings]
          /\ partial' = is_partial
          /\ ui_response' = [view_type |-> IF paths # <<>> THEN "path_view"
                                           ELSE "circuit_view",
                             total_circuits |-> Len(circuits),
                             impacted_circuits |-> enriched.count,
                             paths |-> paths,
                             circuits |-> circuits,
                             comments |-> comment_data.comments,
                             warnings |-> warnings,
                             partial |-> is_partial,
                             natural_language_summary |-> "draft"]
    /\ pc' = "router"
    /\ UNCHANGED <<gatewayVars, breakerVars, user_input, ui_sites, retry_count, max_retries, plan,
                   plan_raw, planning_error, comment_data, outage_data, memory_data,
                   hierarchy_data, stepIdx, steplog, ref_uses, fallback_used,
                   served, prev_fallback, planner_runs>>

(***************************************************************************)
(* refinement_router, response_node, ingress_node, the API entry            *)
(***************************************************************************)
\* A router that sends every request back to the planner
RefineAlways(v, rc, mr) == TRUE
\* routers.py line 33: the condition of the backward edge
ShouldRefine(v, rc, mr) == v.needs_refinement /\ rc < mr

\* routers.py lines 28-39
RefinementRouter ==
    /\ pc = "router"
    /\ IF ShouldRefine(validation, retry_count, max_retries)
       THEN retry_count' = retry_count + 1 /\ pc' = "planner"
       ELSE pc' = "response" /\ UNCHANGED retry_count
    /\ UNCHANGED <<gatewayVars, breakerVars, user_input, ui_sites, max_retries, plan, plan_raw,
                   planning_error, slotVars, validation, ui_response, partial, stepIdx,
                   steplog, ref_uses, fallback_used,
                   served, prev_fallback, planner_runs>>

\* response_node: the chain is built outside the try (lines 47-48), the model
\* call inside it (lines 52-66)
ResponseNode(outcome) ==
    /\ pc = "response"
    /\ IF outcome = "handle_error"
       THEN pc' = "failed" /\ UNCHANGED ui_response
       ELSE /\ ui_response' =
                  IF outcome = "ok"
                  THEN [ui_response EXCEPT !.natural_language_summary = "refined"]
                  ELSE ui_response
            /\ pc' = "END"
    /\ llm_calls' = IF outcome = "handle_error"
                    THEN llm_calls
                    ELSE llm_calls \cup {ModelCall("response", PromptModelChain)}
    /\ UNCHANGED <<storeVars, breakerVars, user_input, ui_sites, retry_count, max_retries, plan,
                   plan_raw, planning_error, slotVars, validation, partial, stepIdx,
                   steplog, ref_uses, fallback_used,
                   served, prev_fallback, planner_runs>>

\* ingress_node lines 37-51: "state.get(key, default) or default"
IngressNode ==
    /\ pc = "ingress"
    /\ max_retries' = IF max_retries = 0 THEN 1 ELSE max_retries
    /\ pc' = "planner"
    /\ UNCHANGED <<gatewayVars, breakerVars, user_input, ui_sites, retry_count, plan, plan_raw,
                   planning_error, slotVars, validation, ui_response, partial, stepIdx,
                   steplog, ref_uses, fallback_used,
                   served, prev_fallback, planner_runs>>

\* The workflow is invoked on an initial TopologyState: the query, the selected
\* sites, max_retries, and planning_error present (None) or not in the dict.
Submit(question, sites, seed_max_retries, seed_planning_error) ==
    /\ pc = "idle"
    /\ user_input' = question
    /\ ui_sites' = sites
    /\ retry_count' = 0
    /\ max_retries' = seed_max_retries
    /\ planning_error' = seed_planning_error
    /\ pc' = "ingress"
    /\ planner_runs' = 0
    /\ UNCHANGED <<gatewayVars, breakerVars, plan, plan_raw, slotVars, validation, ui_response,
                   partial, stepIdx, steplog, ref_uses, fallback_used,
                   served, prev_fallback>>

\* Requests the process serves in a run of the model
MaxRequests == 2

NoFallback == [stored |-> FALSE, user_input |-> "", ui_sites |-> <<>>, plan |-> NoPlan]

\* The request is over (response returned, or the exception turned into an HTTP
\* 500); the next request starts from a new initial_state dict. The process
\* keeps the breaker and the metrics.
RequestDone ==
    /\ pc \in {"END", "failed"}
    /\ served + 1 < MaxRequests
    /\ served' = served + 1
    /\ prev_fallback' = IF plan.strategy = "fallback_simple"
                        THEN [stored |-> TRUE, user_input |-> user_input,
                              ui_sites |-> ui_sites, plan |-> plan]
                        ELSE prev_fallback
    /\ pc' = "idle"
    /\ user_input' = ""
    /\ ui_sites' = <<>>
    /\ retry_count' = 0
    /\ max_retries' = 0
    /\ plan' = NoPlan
    /\ plan_raw' = "absent"
    /\ planning_error' = "absent"
    /\ topology_data' = NoneData
    /\ inventory_data' = NoneData
    /\ comment_data' = NoneData
    /\ outage_data' = NoneData
    /\ memory_data' = NoneData
    /\ hierarchy_data' = NoneData
    /\ validation' = NoValidation
    /\ ui_response' = NoResponse
    /\ partial' = FALSE
    /\ stepIdx' = 0
    /\ steplog' = <<>>
    /\ ref_uses' = <<>>
    /\ planner_runs' = 0
    /\ UNCHANGED <<gatewayVars, breakerVars, fallback_used>>

Questions == {"", "q"}
SiteSelections == {<<>>, <<"A", "B">>}
\* max_retries values a caller seeds, up to this one
MaxSeedRetries == 1

RequestInit ==
    /\ pc = "idle"
    /\ user_input = ""
    /\ ui_sites = <<>>
    /\ retry_count = 0
    /\ max_retries = 0
    /\ plan = NoPlan
    /\ plan_raw = "absent"
    /\ planning_error = "absent"
    /\ topology_data = NoneData
    /\ inventory_data = NoneData
    /\ comment_data = NoneData
    /\ outage_data = NoneData
    /\ memory_data = NoneData
    /\ hierarchy_data = NoneData
    /\ validation = NoValidation
    /\ ui_response = NoResponse
    /\ partial = FALSE
    /\ stepIdx = 0
    /\ steplog = <<>>
    /\ ref_uses = <<>>
    /\ fallback_used = 0
    /\ served = 0
    /\ prev_fallback = NoFallback
    /\ planner_runs = 0

BreakerInit ==
    /\ _failures = EmptyDict
    /\ _tripped_at = EmptyDict
    /\ now = 0
    /\ inflight = [t \in CallerTools |-> 0]
    /\ trials = [t \in CallerTools |-> 0]
    /\ last = NoCall
    /\ streak = [t \in CallerTools |-> 0]
    /\ lastFailAt = [t \in CallerTools |-> 0]


(***************************************************************************)
(* The LLM gateway (src/llm/gateway): budget check, backend choice, handle *)
(* creation, and the file-backed usage store its callback writes to.       *)
(* Costs are in units of 10^-5 dollars, token counts in thousands.         *)
(***************************************************************************)

\* The backends Settings accepts for llm_backend and fallback_backend
Backends == {"bedrock", "vertex", "openai", "vllm", "ollama"}

\* The chat-model libraries models.py tries to import
Libraries == {"langchain_openai", "langchain_aws", "langchain_google_vertexai",
              "langchain_ollama"}

\* The library whose class create_<backend>_chat needs
LibraryOf(backend) ==
    CASE backend \in {"openai", "vllm"} -> "langchain_openai"
      [] backend = "bedrock"            -> "langchain_aws"
      [] backend = "vertex"             -> "langchain_google_vertexai"
      [] backend = "ollama"             -> "langchain_ollama"

Tiers == {"planner", "response"}

\* _create_model_from_tier: the model name per backend and tier
ModelOfTier(backend, tier) ==
    CASE backend = "openai"  -> IF tier = "planner" THEN "gpt-4o" ELSE "gpt-4o-mini"
      [] backend = "bedrock" -> IF tier = "planner"
                                THEN "anthropic.claude-3-sonnet-20240229-v1:0"
                                ELSE "anthropic.claude-3-haiku-20240307-v1:0"
      [] backend = "vertex"  -> IF tier = "planner" THEN "gemini-1.5-pro"
                                                    ELSE "gemini-1.5-flash"
      [] backend = "vllm"    -> IF tier = "planner" THEN "local-gpt-4o-equivalent"
                                                    ELSE "local-judge-model"
      [] backend = "ollama"  -> "mistral"

ModelNames == {ModelOfTier(b, t) : b \in Backends, t \in Tiers}

\* _create_model_from_tier with the create_* functions of models.py: a handle,
\* RuntimeError when the backend's class was not imported, ValueError for a
\* backend without a branch
CreateOutcome(backend) ==
    IF backend \notin Backends THEN "ValueError"
    ELSE IF LibraryOf(backend) \notin importable THEN "RuntimeError"
    ELSE "handle"

\* COST_MAPPING, per thousand tokens
COST_MAPPING ==
    [m \in {"gpt-4o", "gpt-4o-mini", "gpt-3.5-turbo",
            "anthropic.claude-3-sonnet-20240229-v1:0",
            "anthropic.claude-3-haiku-20240307-v1:0",
            "mistral", "mistral:7b-instruct-v0.3-q4_K_M", "local-gpt-4o-equivalent",
            "local-judge-model", "local-response-model"} |->
        CASE m = "gpt-4o"        -> [input |-> 500, output |-> 1500]
          [] m = "gpt-4o-mini"   -> [input |-> 15, output |-> 60]
          [] m = "gpt-3.5-turbo" -> [input |-> 50, output |-> 150]
          [] m = "anthropic.claude-3-sonnet-20240229-v1:0" -> [input |-> 300, output |-> 1500]
          [] m = "anthropic.claude-3-haiku-20240307-v1:0"  -> [input |-> 25, output |-> 125]
          [] OTHER               -> [input |-> 0, output |-> 0]]

\* calculate_cost. None of the names in ModelNames that miss the exact lookup
\* contains a priced name, so the search by substring finds nothing for them.
calculate_cost(model_name, prompt_tokens, completion_tokens) ==
    IF model_name \notin DOMAIN COST_MAPPING
    THEN 0
    ELSE prompt_tokens * COST_MAPPING[model_name].input
         + completion_tokens * COST_MAPPING[model_name].output

\* tracking_tags["user_id"] as callers pass it, "absent" for a dict without the key
TagUsers == {"absent", "u1"}

Users == {"anonymous", "u1"}

\* What _load returns for a file it cannot decode, and what _ensure_file writes
ZeroData ==
    [global |-> 0,
     users |-> [u \in Users |-> 0],
     providers |-> [m \in ModelNames |->
                      [cost |-> 0, prompt_tokens |-> 0, completion_tokens |-> 0]]]

\* FileUsageStore._load
_load == IF usage_file.readable THEN usage_file.data ELSE ZeroData

get_global_cost == _load.global

get_user_cost(user_id) == IF user_id \in DOMAIN _load.users THEN _load.users[user_id] ELSE 0

\* add_cost lines 54-70: the totals after adding one call to the loaded data
AddedCost(data, user_id, cost, model_name, prompt_tokens, completion_tokens) ==
    [global |-> data.global + cost,
     users |-> IF user_id # ""
               THEN [data.users EXCEPT ![user_id] = @ + cost]
               ELSE data.users,
     providers |-> [data.providers EXCEPT ![model_name] =
                      [cost |-> @.cost + cost,
                       prompt_tokens |-> @.prompt_tokens + prompt_tokens,
                       completion_tokens |-> @.completion_tokens + completion_tokens]]]

\* Budget ceilings of the modelled Settings
GlobalBudget == 3000
UserBudget == 2000

\* Model calls made through gateway handles in one run
MaxCalls == 2

\* Usage callbacks that can be running at once
Procs == {1, 2}

\* (prompt_tokens, completion_tokens) a reply reports
TokenCounts == {<<0, 0>>, <<0, 1>>, <<1, 1>>}

NoModel ==
    [pc |-> "idle", user_id |-> "", tier |-> "", global_spend |-> 0, user_spend |-> 0,
     backend |-> "none", model |-> "none", outcome |-> "none"]

IdleCallback ==
    [pc |-> "idle", user_id |-> "", model_name |-> "", cost |-> 0, data |-> ZeroData,
     overwritten |-> FALSE]

\* get_model lines 95-100 with a strict comparison
BudgetBreachedStrict(global_spend, user_spend) ==
    \/ global_spend > settings.global_llm_budget
    \/ user_spend > settings.user_llm_budget

\* get_model lines 94-100: limit_breached
BudgetBreached(global_spend, user_spend) ==
    \/ global_spend >= settings.global_llm_budget
    \/ user_spend >= settings.user_llm_budget

\* get_model lines 84-89: the tags are read and the global total is loaded
GetModelBudget(tag, tier) ==
    /\ gm.pc = "idle"
    /\ gm' = [NoModel EXCEPT !.pc = "budget",
                             !.user_id = IF tag = "absent" THEN "anonymous" ELSE tag,
                             !.tier = tier,
                             !.global_spend = get_global_cost]
    /\ UNCHANGED <<llm_calls, settings, importable, usage_file, cb, charged, last_global,
                   calls_started, gr, breakerVars, requestVars>>

\* get_model lines 90-134: the user's total is loaded, the backend is chosen
\* and the handle is created; an exception of the create_* function leaves
\* get_model
GetModelCreate ==
    /\ gm.pc = "budget"
    /\ LET user_spend == get_user_cost(gm.user_id)
           backend == IF BudgetBreached(gm.global_spend, user_spend)
                      THEN settings.fallback_backend
                      ELSE settings.llm_backend
           outcome == CreateOutcome(backend)
       IN gm' = [gm EXCEPT !.pc = "idle",
                           !.user_spend = user_spend,
                           !.backend = backend,
                           !.outcome = outcome,
                           !.model = IF outcome = "handle"
                                     THEN ModelOfTier(backend, gm.tier)
                                     ELSE "none"]
    /\ UNCHANGED <<llm_calls, settings, importable, usage_file, cb, charged, last_global,
                   calls_started, gr, breakerVars, requestVars>>

\* A model call through the handle get_model returned: the pipeline runs, and
\* on_llm_end computes the cost and calls add_cost, which returns at line 50
\* for a call without cost and tokens and otherwise loads the file and adds
\* the call to the loaded totals (lines 52-70)
Invoke(p, tokens) ==
    /\ gm.pc = "idle"
    /\ gm.outcome = "handle"
    /\ cb[p].pc = "idle"
    /\ calls_started < MaxCalls
    /\ LET cost == calculate_cost(gm.model, tokens[1], tokens[2])
       IN IF cost <= 0 /\ tokens[1] = 0 /\ tokens[2] = 0
          THEN UNCHANGED cb
          ELSE cb' = [cb EXCEPT ![p] =
                        [pc |-> "loaded", user_id |-> gm.user_id, model_name |-> gm.model,
                         cost |-> cost,
                         data |-> AddedCost(_load, gm.user_id, cost, gm.model,
                                            tokens[1], tokens[2]),
                         overwritten |-> FALSE]]
    /\ llm_calls' = llm_calls \cup {ModelCall(gm.tier, GatewayPipeline)}
    /\ calls_started' = calls_started + 1
    /\ UNCHANGED <<settings, importable, usage_file, gm, charged, last_global,
                   gr, breakerVars, requestVars>>

\* _save line 45: open(filepath, "w") empties the file
AddCostOpen(p) ==
    /\ cb[p].pc = "loaded"
    /\ usage_file' = [readable |-> FALSE, data |-> ZeroData]
    /\ cb' = [cb EXCEPT ![p].pc = "opened"]
    /\ UNCHANGED <<llm_calls, settings, importable, gm, charged, last_global,
                   calls_started, gr, breakerVars, requestVars>>

\* _save line 46 and the return of add_cost: the totals are written from the
\* start of the file. Bytes another writer put there while this one had the
\* file open stay behind a shorter text, and the file then does not decode.
AddCostDump(p) ==
    /\ cb[p].pc = "opened"
    /\ \E decodes \in (IF cb[p].overwritten THEN BOOLEAN ELSE {TRUE}) :
          usage_file' = IF decodes
                        THEN [readable |-> TRUE, data |-> cb[p].data]
                        ELSE [readable |-> FALSE, data |-> ZeroData]
    /\ cb' = [q \in Procs |->
                IF q = p THEN IdleCallback
                ELSE IF cb[q].pc = "opened" THEN [cb[q] EXCEPT !.overwritten = TRUE]
                ELSE cb[q]]
    /\ charged' = [charged EXCEPT
                     !.global = @ + cb[p].cost,
                     !.users[cb[p].user_id] = @ + cb[p].cost,
                     !.providers[cb[p].model_name] = @ + cb[p].cost]
    /\ last_global' = get_global_cost'
    /\ UNCHANGED <<llm_calls, settings, importable, gm, calls_started,
                   gr, breakerVars, requestVars>>

\* The library sets of the modelled deployments
Environments == {Libraries, Libraries \ {"langchain_ollama"}}

(***************************************************************************)
(* Gateway guardrails (src/llm/gateway/guardrails.py) and the interceptors *)
(* of GatewayClient.get_model. A text is a sequence of atoms: the digit    *)
(* "1", the characters "-", " ", "@", ".", whole lowercase words, and      *)
(* opaque pieces of fixed text.                                            *)
(***************************************************************************)
Digit == "1"

\* The words user texts are made of
Words == {"id", "bob", "mail", "com", "ignore", "instructions", "bypass", "override",
          "developer"}

\* \w: digits and letters
IsWordAtom(a) == a = Digit \/ a \in Words

\* \b at position pos of s (before s[pos]; Len(s) + 1 is the end of the text)
Boundary(s, pos) ==
    LET left == pos > 1 /\ IsWordAtom(s[pos - 1])
        right == pos <= Len(s) /\ IsWordAtom(s[pos])
    IN left # right

\* s contains t as a contiguous piece
Contains(s, t) ==
    \E i \in 1..(Len(s) - Len(t) + 1) : SubSeq(s, i, i + Len(t) - 1) = t

RECURSIVE RunEnd(_, _, _)
\* Index of the first atom at or after i that is outside class (Len(s) + 1 if none)
RunEnd(s, i, class) ==
    IF i > Len(s) \/ s[i] \notin class THEN i ELSE RunEnd(s, i + 1, class)

\* PII_PATTERNS["ssn"] = \b\d{3}-\d{2}-\d{4}\b: the index after a match that
\* starts at i, 0 without one
SsnEnd(s, i) ==
    IF /\ i + 10 <= Len(s)
       /\ \A k \in 0..10 : s[i + k] = (IF k \in {3, 6} THEN "-" ELSE Digit)
       /\ Boundary(s, i)
       /\ Boundary(s, i + 11)
    THEN i + 11
    ELSE 0

RECURSIVE CardDigit(_, _, _)
RECURSIVE CardSeps(_, _, _)
RECURSIVE CardCont(_, _, _)
\* PII_PATTERNS["credit_card"] = \b(?:\d[ -]*?){13,16}\b, in the order the
\* matcher tries: one more repetition before leaving the loop, and no
\* separator before one more separator. k is the number of digits matched.
CardDigit(s, pos, k) ==
    IF pos <= Len(s) /\ s[pos] = Digit THEN CardSeps(s, pos + 1, k + 1) ELSE 0

CardSeps(s, pos, k) ==
    LET c == CardCont(s, pos, k)
    IN IF c # 0 THEN c
       ELSE IF pos <= Len(s) /\ s[pos] \in {" ", "-"} THEN CardSeps(s, pos + 1, k)
       ELSE 0

CardCont(s, pos, k) ==
    LET more == IF k < 16 THEN CardDigit(s, pos, k) ELSE 0
    IN IF more # 0 THEN more
       ELSE IF k >= 13 /\ Boundary(s, pos) THEN pos
       ELSE 0

CardEnd(s, i) == IF Boundary(s, i) THEN CardDigit(s, i, 0) ELSE 0

\* PII_PATTERNS["email"] = \b[A-Za-z0-9._%+-]+@[A-Za-z0-9.-]+\.[A-Z|a-z]{2,}\b:
\* the local part runs up to the "@"; the domain is cut at the last "." that
\* is followed by letters ending at a word boundary
EmailEnd(s, i) ==
    LET class == Words \cup {Digit, ".", "-"}
        at == RunEnd(s, i, class)
        dEnd == RunEnd(s, at + 1, class)
        dots == {j \in (at + 2)..(dEnd - 1) :
                    /\ s[j] = "."
                    /\ RunEnd(s, j + 1, Words) > j + 1
                    /\ Boundary(s, RunEnd(s, j + 1, Words))}
    IN IF ~Boundary(s, i) \/ at = i \/ at > Len(s) THEN 0
       ELSE IF s[at] # "@" \/ dots = {} THEN 0
       ELSE RunEnd(s, (CHOOSE j \in dots : \A k \in dots : k <= j) + 1, Words)

MatchEnd(p, s, i) ==
    CASE p = "ssn"         -> SsnEnd(s, i)
      [] p = "credit_card" -> CardEnd(s, i)
      [] p = "email"       -> EmailEnd(s, i)

\* f"[REDACTED_{pii_type.upper()}]"
Redacted(p) ==
    CASE p = "ssn"         -> "[REDACTED_SSN]"
      [] p = "credit_card" -> "[REDACTED_CREDIT_CARD]"
      [] p = "email"       -> "[REDACTED_EMAIL]"

RECURSIVE Sub(_, _, _)
\* pattern.sub(replacement, content): leftmost matches, one after the other
Sub(p, s, i) ==
    IF i > Len(s) THEN <<>>
    ELSE IF MatchEnd(p, s, i) > i
         THEN <<Redacted(p)>> \o Sub(p, s, MatchEnd(p, s, i))
         ELSE <<s[i]>> \o Sub(p, s, i + 1)

\* guardrails.py lines 50-51: the patterns in the order of PII_PATTERNS
RedactPii(s) == Sub("email", Sub("credit_card", Sub("ssn", s, 1), 1), 1)

\* INJECTION_PATTERNS 1-6 as the word sequences they accept (\s+ between the
\* words, \b at both ends), and pattern 7, which has no \b
INJECTION_PATTERNS ==
    {<<"ignore">> \o a \o p \o <<t>> :
        a \in {<<>>, <<"all">>}, p \in {<<>>, <<"previous">>},
        t \in {"instructions", "directions", "prompts"}}
    \cup {<<"system", "prompt">>, <<"initial", "prompt">>, <<"core", "instructions">>}
    \cup {<<"you", "are", "now">>, <<"act", "as">>, <<"from", "now", "on", "you">>}
    \cup {<<"dan">>, <<"do", "anything", "now">>, <<"developer", "mode">>,
          <<"unfiltered", "mode">>}
    \cup {<<"disregard", "the", "above">>}
    \cup {<<"print", "your", "instructions">>, <<"output", "initial", "prompt">>}

UnboundedInjectionPatterns == {<<"forget", "everything">>}

RECURSIVE WordsEnd(_, _, _)
\* Index after the words ws found from i on with whitespace between them, 0 if
\* they are not there
WordsEnd(s, i, ws) ==
    IF i > Len(s) \/ s[i] # Head(ws) THEN 0
    ELSE IF Len(ws) = 1 THEN i + 1
    ELSE LET next == RunEnd(s, i + 1, {" "})
         IN IF next = i + 1 THEN 0 ELSE WordsEnd(s, next, Tail(ws))

\* line 54: any(pattern.search(content) for pattern in INJECTION_PATTERNS)
IsInjection(s) ==
    \E i \in 1..Len(s) :
        \/ \E ws \in INJECTION_PATTERNS :
              /\ Boundary(s, i)
              /\ WordsEnd(s, i, ws) # 0
              /\ Boundary(s, WordsEnd(s, i, ws))
        \/ \E ws \in UnboundedInjectionPatterns : WordsEnd(s, i, ws) # 0

suspicious_keywords ==
    {"ignore", "prompt", "system", "instruction", "bypass", "override", "developer"}

\* The keywords that are pieces of one atom
KeywordsIn(a) ==
    CASE a = "instructions" -> {"instruction"}
      [] a = "prompts"      -> {"prompt"}
      [] OTHER              -> {a} \cap suspicious_keywords

\* line 58: the number of keywords found in content.lower()
KeywordScore(s) ==
    Cardinality({k \in suspicious_keywords : \E i \in 1..Len(s) : k \in KeywordsIn(s[i])})

BlockSentinel == "BLOCKED: Prompt Injection Attempt Detected."

Human(content) == [type |-> "human", content |-> content]
System(content) == [type |-> "system", content |-> content]

\* lines 48-64 for one HumanMessage with a string content
GuardHuman(content) ==
    LET redacted == RedactPii(content)
    IN IF IsInjection(redacted) \/ KeywordScore(redacted) >= 3
       THEN <<BlockSentinel>>
       ELSE redacted

\* GatewayGuardrails.apply_input_guardrails
apply_input_guardrails(messages, config) ==
    IF ~config.pii_redaction THEN messages
    ELSE [i \in 1..Len(messages) |->
            IF messages[i].type = "human"
            THEN Human(GuardHuman(messages[i].content))
            ELSE messages[i]]

\* The disclaimer apply_safety_policies appends to the last human message
Disclaimer(env) == IF env = "prod" THEN "\n\n[PROD MODE]: ..." ELSE "\n\n[DEV MODE]: ..."

\* apply_safety_policies for a list of messages (a str input is one HumanMessage)
apply_safety_policies(messages, env) ==
    LET withPolicy ==
            IF Len(messages) > 0 /\ messages[1].type = "system"
            THEN <<System(<<"GLOBAL_SAFETY_POLICY", "\n\n">> \o messages[1].content)>>
                 \o Tail(messages)
            ELSE <<System(<<"GLOBAL_SAFETY_POLICY">>)>> \o messages
        n == Len(withPolicy)
    IN IF withPolicy[n].type = "human"
       THEN [withPolicy EXCEPT ![n] = Human(@.content \o <<Disclaimer(env)>>)]
       ELSE withPolicy

\* client.py lines 119-123
input_pipeline(x, env, config) ==
    apply_input_guardrails(apply_safety_policies(x, env), config)

\* ---- user texts ----
SsnText == <<"1", "1", "1", "-", "1", "1", "-", "1", "1", "1", "1">>
CardText == [i \in 1..16 |-> "1"]
EmailText == <<"bob", "@", "mail", ".", "com">>
PiiTokens == {SsnText, CardText, EmailText}

Chunks == PiiTokens \cup {<<w>> : w \in Words \ {"bob", "mail", "com"}} \cup {<<" ">>}

\* Chunks in one user text
MaxChunks == 3

RECURSIVE Flatten(_)
Flatten(cs) == IF cs = <<>> THEN <<>> ELSE Head(cs) \o Flatten(Tail(cs))

UserTexts == {Flatten(cs) : cs \in UNION {[1..n -> Chunks] : n \in 0..MaxChunks}}

\* guardrail_config as get_model receives it (a missing key reads as its default)
GuardrailConfigs ==
    [pii_redaction : BOOLEAN, json_enforcement : BOOLEAN, rbac_level : {"read_only", "admin"}]

\* ---- model replies ----
\* A reply is a sequence of segments: free text, a ``` or ```json fence, or the
\* text of one JSON value. keys tells what a JSON object holds.
Seg(kind) == [kind |-> kind, keys |-> "none", steps |-> <<>>]
PlanObject(steps) == [kind |-> "object", keys |-> "steps", steps |-> steps]
ErrorEnvelope == [kind |-> "object", keys |-> "error", steps |-> <<>>]
Step(tool) == [tool |-> tool, error |-> ""]

JsonKinds == {"object", "array", "number", "string", "null"}

ReplyPlans ==
    {PlanObject(<<>>), PlanObject(<<Step("topology_tool")>>),
     PlanObject(<<Step("reboot_tool")>>),
     PlanObject(<<Step("topology_tool"), Step("config_push_tool")>>)}

ReplySegments ==
    {Seg("text"), Seg("fence"), Seg("json_fence"), Seg("object"),
     [Seg("object") EXCEPT !.keys = "other"], Seg("array"), Seg("number"),
     Seg("string"), Seg("null")} \cup ReplyPlans

\* Segments in one reply
MaxSegments == 3

Replies == UNION {[1..n -> ReplySegments] : n \in 0..MaxSegments}

Least(S) == CHOOSE i \in S : \A j \in S : i <= j
Greatest(S) == CHOOSE i \in S : \A j \in S : j <= i

\* lines 82-86: re.search(r"```(?:json)?(.*?)```", ..., re.DOTALL), group 1
StripFence(segs) ==
    LET fences == {i \in 1..Len(segs) : segs[i].kind \in {"fence", "json_fence"}}
        closing == {j \in fences : j > Least(fences)}
    IN IF fences = {} \/ closing = {} THEN segs
       ELSE SubSeq(segs, Least(fences) + 1, Least(closing) - 1)

\* lines 88-92: from the first "{" to the last "}"
SliceBraces(segs) ==
    LET objs == {i \in 1..Len(segs) : segs[i].kind = "object"}
    IN IF objs = {} THEN segs ELSE SubSeq(segs, Least(objs), Greatest(objs))

\* json.loads accepts exactly one JSON value
Parses(segs) == Len(segs) = 1 /\ segs[1].kind \in JsonKinds

\* Python truth value of a parsed JSON value (arrays, numbers and strings of
\* the replies are non-empty and non-zero)
JsonTruthy(v) == v.kind \in {"array", "number", "string"} \/ (v.kind = "object" /\ v.keys # "none")

restricted_tools(rbac_level) ==
    IF rbac_level = "read_only"
    THEN {"reboot_tool", "config_push_tool", "outage_remediation_tool"}
    ELSE {}

\* lines 121-128: the steps of a plan after the RBAC rewrite
RbacSteps(steps, rbac_level) ==
    [i \in 1..Len(steps) |->
        IF steps[i].tool \in restricted_tools(rbac_level)
        THEN [tool |-> "unauthorized_tool", error |-> "UNAUTHORIZED"]
        ELSE steps[i]]

Returned(content) == [outcome |-> "returned", content |-> content]

\* GatewayGuardrails.apply_output_guardrails for an AIMessage with a string
\* content. "steps" in a number raises TypeError, which leaves the function.
apply_output_guardrails(segs, config) ==
    LET cleaned == SliceBraces(StripFence(segs))
        v == cleaned[1]
    IN IF ~config.json_enforcement THEN Returned(segs)
       ELSE IF ~Parses(cleaned) THEN Returned(<<ErrorEnvelope>>)
       ELSE IF ~JsonTruthy(v) THEN Returned(<<v>>)
       ELSE IF v.kind = "number" THEN [outcome |-> "TypeError", content |-> <<>>]
       ELSE IF v.kind = "object" /\ v.keys = "steps"
            THEN Returned(<<[v EXCEPT !.steps = RbacSteps(@, config.rbac_level)]>>)
            ELSE Returned(<<v>>)

\* ---- one call through the pipeline get_model builds ----
NoGuardCall ==
    [stage |-> "idle",
     config |-> [pii_redaction |-> FALSE, json_enforcement |-> FALSE, rbac_level |-> "read_only"],
     env |-> "dev", messages |-> <<>>, prompt |-> <<>>, reply |-> <<>>,
     result |-> Returned(<<>>)]

\* interceptor_in: the safety policies and the input guardrails turn the
\* caller's messages into the prompt
InterceptorIn(config, env, messages) ==
    /\ gr.stage = "idle"
    /\ gr' = [NoGuardCall EXCEPT !.stage = "prompted", !.config = config, !.env = env,
                                 !.messages = messages,
                                 !.prompt = input_pipeline(messages, env, config)]
    /\ UNCHANGED <<llm_calls, settings, importable, usage_file, cb, gm, charged,
                   last_global, calls_started, breakerVars, requestVars>>

\* The model takes the prompt
ModelInvoke ==
    /\ gr.stage = "prompted"
    /\ gr' = [gr EXCEPT !.stage = "invoked", !.messages = <<>>, !.prompt = <<>>]
    /\ UNCHANGED <<llm_calls, settings, importable, usage_file, cb, gm, charged,
                   last_global, calls_started, breakerVars, requestVars>>

\* interceptor_out: the model's reply goes through the output guardrails
InterceptorOut(reply) ==
    /\ gr.stage = "invoked"
    /\ gr' = [gr EXCEPT !.stage = "returned", !.reply = reply,
                        !.result = apply_output_guardrails(reply, gr.config)]
    /\ UNCHANGED <<llm_calls, settings, importable, usage_file, cb, gm, charged,
                   last_global, calls_started, breakerVars, requestVars>>

NoCharges ==
    [global |-> 0, users |-> [u \in Users |-> 0], providers |-> [m \in ModelNames |-> 0]]

\* The store and the gateway before any call: _ensure_file has written zeros
StoreInit ==
    /\ llm_calls = {}
    /\ usage_file = [readable |-> TRUE, data |-> ZeroData]
    /\ cb = [p \in Procs |-> IdleCallback]
    /\ gm = NoModel
    /\ charged = NoCharges
    /\ last_global = 0
    /\ calls_started = 0
    /\ gr = NoGuardCall

\* The defaults of config.py, every library importable
DefaultSettings ==
    /\ settings = [llm_backend |-> "openai", fallback_backend |-> "ollama",
                   global_llm_budget |-> GlobalBudget, user_llm_budget |-> UserBudget]
    /\ importable = Libraries

Init == BreakerInit /\ RequestInit /\ StoreInit /\ DefaultSettings

\* The gateway under its configurations: any fallback backend, with and without
\* the library of the default one
GatewayInit ==
    /\ BreakerInit
    /\ RequestInit
    /\ StoreInit
    /\ settings \in [llm_backend : {"openai"}, fallback_backend : Backends,
                     global_llm_budget : {GlobalBudget}, user_llm_budget : {UserBudget}]
    /\ importable \in Environments

NextGuardrails ==
    \/ /\ gr.stage = "idle"
       /\ \E config \in GuardrailConfigs, env \in {"dev", "prod"}, t \in UserTexts :
             \/ InterceptorIn(config, env, <<Human(t)>>)
             \/ InterceptorIn(config, env, <<System(<<"SYSTEM_PROMPT">>), Human(t)>>)
    \/ ModelInvoke
    \/ /\ gr.stage = "invoked"
       /\ \E reply \in Replies : InterceptorOut(reply)


\* ---- the correlator on its own ----
\* Rows of inventory_circuits: each has its own id and two sites
RowIds == {"c1", "c2"}
Rows == {[RowOf(src, dst) EXCEPT !.id = id] : id \in RowIds, src \in Sites, dst \in Sites}

\* Alarms the outage adapter may report, each different from the others
CandidateAlarms ==
    {Alarm("A", "site"), Alarm("A", "device"), Alarm("B", "site"), Alarm("d1", "device"),
     Alarm("c1", "circuit")}

\* Paths the graph store may return
CandidatePaths == {PathOf(<<"A", "B">>), [PathOf(<<"A", "B">>) EXCEPT !.hops = <<"A", "B">>]}

\* Lengths of the lists handed to the correlator
MaxAlarms == 3
MaxRows == 2
MaxPaths == 2

\* The sequences of at most n different elements of S
Arrangements(S, n) ==
    {q \in UNION {[1..k -> S] : k \in 0..n} : \A i, j \in 1..Len(q) : q[i] = q[j] => i = j}

RowLists ==
    {q \in Arrangements(Rows, MaxRows) : \A i, j \in 1..Len(q) : q[i].id = q[j].id => i = j}

\* The state tool_node leaves for the correlator: what the outage, inventory
\* and topology adapters returned
CorrelateInit ==
    /\ BreakerInit
    /\ StoreInit
    /\ DefaultSettings
    /\ pc = "correlate"
    /\ user_input = "q"
    /\ ui_sites = <<"A", "B">>
    /\ retry_count = 0
    /\ max_retries = 1
    /\ plan = NoPlan
    /\ plan_raw = "absent"
    /\ planning_error = "absent"
    /\ \E paths \in Arrangements(CandidatePaths, MaxPaths) :
          topology_data = [Envelope("topology_graph_db") EXCEPT !.paths = paths]
    /\ \E rows \in RowLists :
          inventory_data = [Envelope("inventory_db") EXCEPT !.circuits = rows]
    /\ comment_data = NoneData
    /\ \E alarms \in Arrangements(CandidateAlarms, MaxAlarms) :
          outage_data = [Envelope("outage_tool_stub") EXCEPT !.active_alarms = alarms]
    /\ memory_data = NoneData
    /\ hierarchy_data = NoneData
    /\ validation = NoValidation
    /\ ui_response = NoResponse
    /\ partial = FALSE
    /\ stepIdx = 0
    /\ steplog = <<>>
    /\ ref_uses = <<>>
    /\ fallback_used = 0
    /\ served = 0
    /\ prev_fallback = NoFallback
    /\ planner_runs = 0

NextCorrelate == CorrelateAndValidate

SpecCorrelate == CorrelateInit /\ [][NextCorrelate]_vars

NextBreaker ==
    \/ \E t \in CallerTools : Call(t)
    \/ \E t \in CallerTools, isTrial \in BOOLEAN : ReportFailure(t, isTrial)
    \/ \E t \in CallerTools, isTrial \in BOOLEAN : ReportSuccess(t, isTrial)
    \/ \E d \in ClockSteps : Tick(d)

NextRequest ==
    \/ \E q \in Questions, s \in SiteSelections, m \in 0..MaxSeedRetries,
          e \in {"absent", "None"} : Submit(q, s, m, e)
    \/ IngressNode
    \/ PlannerEmptyQuestion
    \/ \E out \in PlannerOutcomes : PlannerNode(out)
    \/ ToolNodeEnter
    \/ ToolStep
    \/ CorrelateAndValidate
    \/ RefinementRouter
    \/ \E o \in {"handle_error", "invoke_error", "ok"} : ResponseNode(o)
    \/ RequestDone

\* Model replies with plain steps (no ids, no depends_on), or malformed ones
PlainOutcomes ==
    {out \in PlannerOutcomes :
        \A i \in 1..Len(out.steps) :
           /\ out.steps[i].id = NoId
           /\ out.steps[i].depends_on = {}
           /\ out.steps[i].params \in {NoParams, RefIdParams}}

\* One request; the workflow runs every node it has scheduled to completion
NextLive ==
    \/ \E q \in Questions, s \in SiteSelections, m \in 0..MaxSeedRetries,
          e \in {"absent", "None"} : Submit(q, s, m, e)
    \/ IngressNode
    \/ PlannerEmptyQuestion
    \/ \E out \in PlainOutcomes : PlannerNode(out)
    \/ ToolNodeEnter
    \/ ToolStep
    \/ CorrelateAndValidate
    \/ RefinementRouter
    \/ \E o \in {"handle_error", "invoke_error", "ok"} : ResponseNode(o)

SpecLive == Init /\ [][NextLive]_vars /\ WF_vars(NextLive)

\* Model replies whose steps name the tools the planner prompt offers
ToolSetOutcomes ==
    {[kind |-> "steps", steps |-> s] :
        s \in UNION {[1..n -> {[bad |-> FALSE, id |-> NoId, tool |-> t, params |-> NoParams,
                                depends_on |-> {}] : t \in ToolSet}] : n \in 1..MaxSteps}}

\* One request planned from the prompt's tool catalogue
NextToolSet ==
    \/ \E q \in Questions, s \in SiteSelections, m \in 0..MaxSeedRetries,
          e \in {"absent", "None"} : Submit(q, s, m, e)
    \/ IngressNode
    \/ PlannerEmptyQuestion
    \/ \E out \in ToolSetOutcomes : PlannerNode(out)
    \/ ToolNodeEnter
    \/ ToolStep
    \/ CorrelateAndValidate
    \/ RefinementRouter
    \/ \E o \in {"handle_error", "invoke_error", "ok"} : ResponseNode(o)

SpecToolSet == Init /\ [][NextToolSet]_vars

\* One request whose task may be cancelled while a tool is awaited
NextCancel == NextLive \/ CancelInFlight

SpecCancel == Init /\ [][NextCancel]_vars

\* Callers of GatewayClient.get_model, the model calls they make through the
\* handles, and the usage callbacks of those calls running side by side
NextGateway ==
    \/ \E tag \in TagUsers, tier \in Tiers : GetModelBudget(tag, tier)
    \/ GetModelCreate
    \/ \E p \in Procs, tokens \in TokenCounts : Invoke(p, tokens)
    \/ \E p \in Procs : AddCostOpen(p)
    \/ \E p \in Procs : AddCostDump(p)

SpecGateway == GatewayInit /\ [][NextGateway]_vars

\* One call through the interceptors, for every configuration, text and reply
SpecGuardrails == Init /\ [][NextGuardrails]_vars

\* The circuit breaker under its callers
SpecBreaker == Init /\ [][NextBreaker]_vars

\* One request through the workflow
Spec == Init /\ [][NextRequest]_vars

\* A request for outages at the selected sites, served while other users of the
\* module-level tool_circuit_breaker report on calls of outage_tool.
OutagePlans ==
    {out \in PlannerOutcomes :
        /\ out.kind = "steps"
        /\ Len(out.steps) = 1
        /\ out.steps[1].tool = "outage_tool"
        /\ out.steps[1].params = NoParams
        /\ out.steps[1].id = NoId
        /\ out.steps[1].depends_on = {}}

NextGuarded ==
    \/ Call("outage_tool")
    \/ \E isTrial \in BOOLEAN : ReportFailure("outage_tool", isTrial)
    \/ \E isTrial \in BOOLEAN : ReportSuccess("outage_tool", isTrial)
    \/ \E d \in ClockSteps : Tick(d)
    \/ Submit("q", <<"A", "B">>, 1, "None")
    \/ IngressNode
    \/ \E out \in OutagePlans : PlannerNode(out)
    \/ ToolNodeEnter
    \/ ToolStep
    \/ CorrelateAndValidate
    \/ RefinementRouter
    \/ \E o \in {"handle_error", "invoke_error", "ok"} : ResponseNode(o)

SpecGuarded == Init /\ [][NextGuarded]_vars

(***************************************************************************)
(* Properties of the circuit breaker (SpecBreaker)                         *)
(***************************************************************************)
\* C1: once failure_threshold consecutive record_failure calls were made for a
\* tool with no record_success in between, an is_open check for that tool made
\* while no more than recovery_timeout has passed since the last of them
\* returns True. `last` is the latest breaker call; only the clock moves after
\* it, so the window that holds now held when the check was made.
C1_OpenWithinWindow ==
    (/\ last.op = "is_open"
     /\ streak[last.tool] >= failure_threshold
     /\ now - lastFailAt[last.tool] <= recovery_timeout)
    => last.ret

\* A check refused strictly after the failure that opened the breaker.
C1_Witness ==
    /\ last.op = "is_open"
    /\ streak[last.tool] >= failure_threshold
    /\ now > lastFailAt[last.tool]
    /\ now - lastFailAt[last.tool] <= recovery_timeout
    /\ last.ret

\* C2: while the half-open trial of a tool has not reported, an is_open check
\* for that tool that is not the trial itself is refused.
C2_OneTrialAdmitted ==
    (/\ last.op = "is_open"
     /\ ~last.trial
     /\ trials[last.tool] >= 1)
    => last.ret

\* C3: the half-open trial's record_success leaves the breaker closed with a
\* failure count of 0, and the trial's record_failure leaves it tripped.
C3_TrialOutcome ==
    /\ (last.op = "record_success" /\ last.trial)
          => (/\ last.tool \notin DOMAIN _tripped_at
              /\ DictGet(_failures, last.tool, 0) = 0)
    /\ (last.op = "record_failure" /\ last.trial)
          => last.tool \in DOMAIN _tripped_at

(***************************************************************************)
(* Properties of the tool executor                                          *)
(***************************************************************************)
\* C4: a step reached while its tool's breaker is open does not invoke the
\* tool and leaves an envelope with error = circuit_breaker_open; when that
\* step is an outage step, the finished request is partial and carries a
\* circuit-breaker warning for the outage tool. (SpecGuarded)
C4_OpenBreakerSkipsTool ==
    /\ \A i \in 1..Len(steplog) :
          steplog[i].breaker_open
             => (~steplog[i].invoked
                 /\ steplog[i].envelope_error = "circuit_breaker_open")
    /\ (/\ pc = "END"
        /\ \E i \in 1..Len(steplog) :
              steplog[i].breaker_open /\ steplog[i].tool = "outage_tool")
          => (/\ ui_response.partial
              /\ \E w \in 1..Len(ui_response.warnings) :
                    ui_response.warnings[w] =
                       [kind |-> "circuit_breaker_open", tool |-> "outage"])

\* C5: an adapter that raises does not fail the request: the failure is in the
\* tool's envelope, the later steps and the correlator run, and the response is
\* partial.
C5_RaiseIsRecordedInline ==
    (\E i \in 1..Len(steplog) : steplog[i].raised)
       => (/\ pc # "failed"
           /\ pc = "END" => ui_response.partial)

\* The steps of a list that carry the id `id`
StepsWithId(steps, id) == {j \in 1..Len(steps) : steps[j].id = id}

\* C6: a step is launched only after every other step named in its depends_on
\* has been processed by tool_node.
C6_DependsOnOrder ==
    \A k \in 1..Len(steplog) :
       steplog[k].invoked =>
          \A id \in plan.steps[steplog[k].idx].depends_on :
             \A j \in StepsWithId(plan.steps, id) \ {steplog[k].idx} :
                \E m \in 1..(k - 1) : steplog[m].idx = j

\* Ids reachable from the ids in `from` over depends_on, in at most n hops
RECURSIVE DepReach(_, _, _)
DepReach(steps, from, n) ==
    IF n = 0 THEN {}
    ELSE LET next == UNION {steps[j].depends_on :
                              j \in {i \in 1..Len(steps) : steps[i].id \in from}}
         IN next \cup DepReach(steps, next, n - 1)

\* The steps that lie on a cycle of depends_on
CycleSteps(steps) ==
    {i \in 1..Len(steps) : steps[i].id \in DepReach(steps, {steps[i].id}, Len(steps))}

\* C7: when depends_on of the stored plan has a cycle, no tool of the cycle is
\* run and a request that ends has validation.status = error.
C7_CycleRejected ==
    CycleSteps(plan.steps) # {}
       => (/\ \A k \in 1..Len(steplog) :
                 steplog[k].idx \in CycleSteps(plan.steps) => ~steplog[k].invoked
           /\ pc = "END" => validation.status = "error")

\* The reference of use u names a step that ran before the consumer
RefResolved(u) ==
    \E m \in 1..Len(steplog) :
       /\ steplog[m].idx < u.step
       /\ steplog[m].invoked
       /\ plan.steps[steplog[m].idx].id = u.ref

\* C8: an adapter never works with the token string itself, and a reference to
\* a step that did not run before the consumer becomes an empty value with a
\* warning in the response.
C8_ReferenceSoundness ==
    \A k \in 1..Len(ref_uses) :
       /\ ~ref_uses[k].raw
       /\ ~RefResolved(ref_uses[k])
             => (/\ ref_uses[k].value = <<>>
                 /\ pc = "END" => ui_response.warnings # <<>>)

\* C9: the stored plan has pairwise distinct step ids and every depends_on
\* names only ids of steps earlier in the list.
C9_PlanIsDag ==
    pc # "failed"
       => (/\ \A i, j \in 1..Len(plan.steps) :
                 i # j => plan.steps[i].id # plan.steps[j].id
           /\ \A i \in 1..Len(plan.steps) :
                 \A id \in plan.steps[i].depends_on :
                    \E j \in 1..(i - 1) : plan.steps[j].id = id)

\* C10: a plan produced by the model is stored only when every step's tool is
\* in ToolSet.
C10_ToolsInToolSet ==
    (pc # "failed" /\ plan.strategy = "model")
       => \A i \in 1..Len(plan.steps) : plan.steps[i].tool \in ToolSet

(***************************************************************************)
(* Properties of the planner                                               *)
(***************************************************************************)
\* The kinds of model text that are not a JSON object with a non-empty list of
\* step objects under "steps"
InvalidTexts == {"unparseable", "not_object", "no_steps", "steps_not_list",
                 "steps_empty", "steps_with_non_step"}

\* C11: a planner run whose model output is unparseable, not an object,
\* without steps, or with steps that is not a non-empty list of step objects
\* stores the fallback plan, sets planning_error and raises the fallback
\* counter by exactly 1.
C11_InvalidOutputFallsBack ==
    [][(pc = "planner" /\ pc' # "planner" /\ plan_raw' \in InvalidTexts)
          => (/\ plan' = FallbackPlan(user_input)
              /\ planning_error' \notin {"absent", "None"}
              /\ fallback_used' = fallback_used + 1)]_vars

\* A request past the planner whose model output was invalid
C11_Witness ==
    /\ pc = "tool_node"
    /\ plan_raw \in InvalidTexts
    /\ plan = FallbackPlan(user_input)
    /\ planning_error \notin {"absent", "None"}
    /\ fallback_used = 1

\* C12: the fallback plan has exactly one step for each tool of ToolSet, each
\* with empty params, strategy fallback_simple and a reason tag.
C12_FallbackCoversToolSet ==
    plan.strategy = "fallback_simple"
       => (/\ Len(plan.steps) = Cardinality(ToolSet)
           /\ {plan.steps[i].tool : i \in 1..Len(plan.steps)} = ToolSet
           /\ \A i \in 1..Len(plan.steps) : plan.steps[i].params = NoParams
           /\ plan.fallback_reason # "")

C17_BreachStillYieldsHandle ==
    (/\ gm.pc = "idle"
     /\ gm.backend # "none"
     /\ \/ gm.global_spend >= settings.global_llm_budget
        \/ gm.user_spend >= settings.user_llm_budget)
       => gm.outcome = "handle"

(***************************************************************************)
(* C18. Over any sequence of completed model calls the recorded global     *)
(* cost never decreases from one call to the next, and once the calls have *)
(* completed each user's recorded total equals the sum of the costs of     *)
(* that user's calls.                                                      *)
(***************************************************************************)
C18_BudgetMonotonicity ==
    /\ [][(\E p \in Procs : cb[p].pc = "opened" /\ cb'[p].pc = "idle")
            => get_global_cost' >= last_global]_vars
    /\ []((\A p \in Procs : cb[p].pc = "idle")
            => \A u \in Users : get_user_cost(u) = charged.users[u])

(***************************************************************************)
(* C19. When add_cost calls of concurrent requests interleave, the totals  *)
(* of the usage store afterwards include every one of their costs: once    *)
(* all of them have returned, the global total, each user's total and each *)
(* model's total equal the sums of the costs added, so no update is lost   *)
(* and no total is below what an earlier call left.                        *)
(***************************************************************************)
C19_NoLostUpdate ==
    (\A p \in Procs : cb[p].pc = "idle") =>
        /\ get_global_cost = charged.global
        /\ get_global_cost >= last_global
        /\ \A u \in Users : get_user_cost(u) = charged.users[u]
        /\ \A m \in ModelNames : _load.providers[m].cost = charged.providers[m]

\* Stage a runs before stage b in a model invocation
RunsBefore(stages, a, b) ==
    \E i, j \in 1..Len(stages) : i < j /\ stages[i] = a /\ stages[j] = b

(***************************************************************************)
(* C20. Every model invocation made by the planner and by the responder    *)
(* passes through the gateway: the input guardrails run before the model   *)
(* sees the prompt, the output guardrails run on the reply, and the usage  *)
(* callback records the call in the usage store.                           *)
(***************************************************************************)
C20_CallsPassThroughGateway ==
    \A c \in llm_calls :
        c.node \in {"planner", "response"} =>
            /\ RunsBefore(c.stages, "interceptor_in", "model")
            /\ RunsBefore(c.stages, "model", "on_llm_end")
            /\ RunsBefore(c.stages, "model", "interceptor_out")

(***************************************************************************)
(* C21. With pii_redaction enabled, no SSN, credit-card or email token of  *)
(* a user message is contained, as that exact string, in a message of the  *)
(* prompt handed to the model.                                             *)
(***************************************************************************)
C21_PiiNeverReachesModel ==
    (gr.stage = "prompted" /\ gr.config.pii_redaction) =>
        \A tok \in PiiTokens :
            (\E i \in 1..Len(gr.messages) :
                gr.messages[i].type = "human" /\ Contains(gr.messages[i].content, tok))
            => \A j \in 1..Len(gr.prompt) : ~Contains(gr.prompt[j].content, tok)

\* The user message of the call and the human message of its prompt
UserMessage == gr.messages[Len(gr.messages)]
PromptMessage == gr.prompt[Len(gr.prompt)]

(***************************************************************************)
(* C22. Under every guardrail configuration, a user message that matches   *)
(* an injection pattern or holds three or more suspicious keywords reaches *)
(* the model as the block sentinel and nothing else.                       *)
(***************************************************************************)
C22_InjectionIsBlocked ==
    (/\ gr.stage = "prompted"
     /\ \/ IsInjection(UserMessage.content)
        \/ KeywordScore(UserMessage.content) >= 3)
       => PromptMessage.content = <<BlockSentinel>>

(***************************************************************************)
(* C23. With json_enforcement on, the output guardrails return, for every  *)
(* reply, content that is one JSON object: the reply's object or the       *)
(* error envelope.                                                         *)
(***************************************************************************)
C23_OutputIsJsonObject ==
    (gr.stage = "returned" /\ gr.config.json_enforcement) =>
        /\ gr.result.outcome = "returned"
        /\ Len(gr.result.content) = 1
        /\ gr.result.content[1].kind = "object"

(***************************************************************************)
(* C24. For a read_only caller, whatever the other guardrail settings, no  *)
(* plan in the content the output guardrails return has a step whose tool  *)
(* is reboot_tool, config_push_tool or outage_remediation_tool.            *)
(***************************************************************************)
C24_ReadOnlyPlansAreRewritten ==
    (gr.stage = "returned" /\ gr.config.rbac_level = "read_only") =>
        \A i \in 1..Len(gr.result.content) :
            \A k \in 1..Len(gr.result.content[i].steps) :
                gr.result.content[i].steps[k].tool \notin restricted_tools("read_only")

Occurrences(q, x) == Cardinality({i \in 1..Len(q) : q[i] = x})

\* The alarm is on the circuit's id or on one of its two sites
Touches(a, c) ==
    \/ a.element_id \in {c.src_site, c.dst_site}
    \/ c.circuit_id # "" /\ a.element_id = c.circuit_id

(***************************************************************************)
(* C26. Every circuit of the response carries each active alarm whose     *)
(* element_id is its circuit_id, src_site or dst_site exactly once and no  *)
(* other alarm, and is_impacted is true exactly when it carries one.       *)
(***************************************************************************)
C26_AlarmsOfCircuit ==
    pc = "router" =>
        \A i \in 1..Len(ui_response.circuits) :
            LET c == ui_response.circuits[i]
                active == outage_data.active_alarms
            IN /\ \A k \in 1..Len(active) :
                     Occurrences(c.alarms, active[k]) = IF Touches(active[k], c) THEN 1 ELSE 0
               /\ \A k \in 1..Len(c.alarms) : Occurrences(active, c.alarms[k]) > 0
               /\ c.is_impacted <=> c.alarms # <<>>

Orderings(n) == {f \in [1..n -> 1..n] : \A i, j \in 1..n : f[i] = f[j] => i = j}
Permuted(q, f) == [i \in 1..Len(q) |-> q[f[i]]]
AsSet(q) == {q[i] : i \in 1..Len(q)}
\* The circuits or paths as the adapter returned them
Bare(q) == [i \in 1..Len(q) |-> [q[i] EXCEPT !.alarms = <<>>, !.is_impacted = FALSE]]

(***************************************************************************)
(* C27. The correlator run on the same alarms, circuits and paths in any   *)
(* other order gives every circuit and path the same set of alarms and the *)
(* same is_impacted, and the same impacted_circuits, partial and view_type.*)
(***************************************************************************)
C27_OrderDoesNotMatter ==
    pc = "router" =>
        \A fa \in Orderings(Len(outage_data.active_alarms)),
           fc \in Orderings(Len(inventory_data.circuits)),
           fp \in Orderings(Len(topology_data.paths)) :
            LET by == IndexAlarms(Permuted(outage_data.active_alarms, fa), EmptyDict)
                e == EnrichCircuits(Permuted(Bare(inventory_data.circuits), fc), by)
                ps == EnrichPaths(Permuted(Bare(topology_data.paths), fp), e.by)
                warnings == BreakerWarnings(topology_data, inventory_data, outage_data,
                                            comment_data)
            IN /\ \A i \in 1..Len(e.circuits) :
                     /\ AsSet(e.circuits[i].alarms) = AsSet(ui_response.circuits[fc[i]].alarms)
                     /\ e.circuits[i].is_impacted = ui_response.circuits[fc[i]].is_impacted
               /\ \A i \in 1..Len(ps) :
                     /\ AsSet(ps[i].alarms) = AsSet(ui_response.paths[fp[i]].alarms)
                     /\ ps[i].is_impacted = ui_response.paths[fp[i]].is_impacted
               /\ e.count = ui_response.impacted_circuits
               /\ (Len(warnings) > 0) = ui_response.partial
               /\ (IF ps # <<>> THEN "path_view" ELSE "circuit_view") = ui_response.view_type

\* Two circuits with different alarms, two alarms on one element, two paths
C27_Witness ==
    /\ pc = "router"
    /\ Len(ui_response.paths) = 2
    /\ Len(ui_response.circuits) = 2
    /\ ui_response.circuits[1].is_impacted
    /\ ui_response.circuits[2].is_impacted
    /\ AsSet(ui_response.circuits[1].alarms) # AsSet(ui_response.circuits[2].alarms)
    /\ \E i, j \in 1..Len(outage_data.active_alarms) :
          /\ i # j
          /\ outage_data.active_alarms[i].element_id = outage_data.active_alarms[j].element_id

\* The envelope records a failure: in its error field or in its metadata
CarriesError(d) == d.error # "none" \/ d.meta_error

(***************************************************************************)
(* C28. After the correlator has run, every tool slot (topology, inventory, *)
(* outage, comments, hierarchy, memory) whose envelope carries an error    *)
(* has made partial true and validation.status "partial", and a warning    *)
(* names that tool.                                                        *)
(***************************************************************************)
C28_ErrorsMakeResponsePartial ==
    pc = "router" =>
        \A slot \in {<<"topology", topology_data>>, <<"inventory", inventory_data>>,
                     <<"outage", outage_data>>, <<"comments", comment_data>>,
                     <<"hierarchy", hierarchy_data>>, <<"memory", memory_data>>} :
            CarriesError(slot[2]) =>
                /\ partial
                /\ ui_response.partial
                /\ validation.status = "partial"
                /\ \E k \in 1..Len(validation.warnings) : validation.warnings[k].tool = slot[1]

(***************************************************************************)
(* C29. response_node always completes normally: it ends with the model's  *)
(* text as natural_language_summary when the model call succeeded and with *)
(* the correlator's draft when creating or invoking the model failed.      *)
(***************************************************************************)
C29_ResponderFailureKeepsDraft ==
    [][pc = "response" =>
          /\ pc' = "END"
          /\ ui_response'.natural_language_summary \in
                {ui_response.natural_language_summary, "refined"}]_vars

(***************************************************************************)
(* C30. When the request is cancelled while a tool is in flight, the       *)
(* envelope of that tool is stored with error = "cancelled" (after which   *)
(* the correlator runs and the response is partial).                       *)
(***************************************************************************)
C30_CancelledToolIsRecorded ==
    pc = "cancelled" =>
        SlotValue(ToolDispatch[plan.steps[stepIdx].tool]).error = "cancelled"

(***************************************************************************)
(* C31. A query sent without ui_context whose plan has a topology step,    *)
(* with no tool error and no circuit from inventory, gets a response with  *)
(* view_type = path_view, total_circuits = 0 and partial = false.          *)
(***************************************************************************)
C31_PathQueryGivesPathView ==
    (/\ pc = "router"
     /\ user_input # ""
     /\ ui_sites = <<>>
     /\ \E i \in 1..Len(plan.steps) : plan.steps[i].tool = "topology_tool"
     /\ \A d \in {topology_data, inventory_data, outage_data, comment_data, memory_data,
                  hierarchy_data} : ~CarriesError(d)
     /\ inventory_data.circuits = <<>>)
       => /\ ui_response.view_type = "path_view"
          /\ ui_response.total_circuits = 0
          /\ ui_response.partial = FALSE

\* The attempts tool_node has made for the step at position idx of the plan
Attempts(idx) == {k \in 1..Len(steplog) : steplog[k].idx = idx}

(***************************************************************************)
(* C32. A step makes at most tool_retry_max_attempts attempts, and when    *)
(* the failure of a step is recorded (its exception leaves tool_node) the  *)
(* step has used all of them.                                              *)
(***************************************************************************)
C32_FailedToolIsRetried ==
    \A k \in 1..Len(steplog) :
        /\ Cardinality(Attempts(steplog[k].idx)) <= tool_retry_max_attempts
        /\ (steplog[k].raised /\ pc = "failed")
              => Cardinality(Attempts(steplog[k].idx)) = tool_retry_max_attempts

(***************************************************************************)
(* C33. Every run of the inventory or outage adapter made for a plan step  *)
(* works with the params of that step.                                     *)
(***************************************************************************)
C33_StepUsesOwnParams ==
    \A k \in 1..Len(steplog) :
        (steplog[k].invoked /\ steplog[k].tool \in {"inventory_tool", "outage_tool"})
           => FirstParams(plan.steps, {steplog[k].tool}) = plan.steps[steplog[k].idx].params

\* C34: every plan step that names a tool of the planner prompt's catalogue
\* (ToolSet) is dispatched to an adapter by tool_node; none is skipped as an
\* unknown tool.
C34_CatalogueToolsAreDispatched ==
    \A k \in 1..Len(steplog) :
        (plan.strategy # "fallback_simple" /\ steplog[k].tool \in ToolSet)
           => steplog[k].invoked

\* C35: on the first planner pass of a request whose planning_error was never
\* set, a reply that parses into a valid plan makes planner_node store that
\* plan and hand over to tool_node.
C35_ValidFirstPlanProceeds ==
    [][(/\ pc = "planner"
        /\ planner_runs = 0
        /\ planning_error = "absent"
        /\ planner_runs' = 1
        /\ plan'.strategy = "model")
          => pc' = "tool_node"]_vars

C37_TrippedIffThreshold ==
    \A t \in CallerTools :
        t \in DOMAIN _tripped_at <=> DictGet(_failures, t, 0) >= failure_threshold

\* A half-open trial has failed and tripped the breaker again.
C37_Witness ==
    /\ last.op = "record_failure"
    /\ last.trial
    /\ last.tool \in DOMAIN _tripped_at
    /\ _failures[last.tool] = failure_threshold

\* C38: while a tool's breaker is tripped and recovery_timeout has not elapsed
\* since the trip, a record_success or record_failure report for that tool
\* (every call still running was admitted before the trip) leaves is_open
\* refusing the tool.
C38_ReportsKeepBreakerOpen ==
    [][\A t \in CallerTools :
          (/\ t \in DOMAIN _tripped_at
           /\ ~RecoveryElapsed(_tripped_at[t], now)
           /\ last'.op \in {"record_success", "record_failure"}
           /\ last'.tool = t
           /\ <<inflight[t], trials[t]>> # <<inflight'[t], trials'[t]>>)
             => IsOpenReturns(_tripped_at', t, now')]_vars

\* C39: when a planner_node run returns, planning_error is set exactly when
\* the stored plan is the fallback plan (strategy fallback_simple); the run
\* may be one with an empty question or a re-plan after a failed pass.
C39_ErrorIffFallback ==
    [][(/\ pc = "planner"
        /\ planner_runs' = planner_runs + 1
        /\ pc' # "failed")
          => (planning_error' \notin {"absent", "None"}
                 <=> plan'.strategy = "fallback_simple")]_vars

\* C40: a budget check that get_model makes while an add_cost call is
\* running reads a global total that is not below the total the last
\* completed add_cost call left in the usage store.
C40_CheckSeesLastWrite ==
    [][(/\ gm.pc = "idle"
        /\ gm'.pc = "budget"
        /\ \E p \in Procs : cb[p].pc \in {"loaded", "opened"})
          => gm'.global_spend >= last_global]_vars

====
